---- MODULE Spec2Model ----
(***************************************************************************)
(* A model of grappa's Parameters class (src/src/grappa/data/Parameters.py) *)
(* : the canonicalisation of raw force-field terms in Parameters.from_lists,*)
(* the to_dict / from_dict pair and write_to_dgl; of DatasetBuilder and    *)
(* match_molecules (src/src/grappa/data/dataset_builder.py); and of the    *)
(* batch loop of src/benchmark_datasets/to_grappa.py.                      *)
(*                                                                         *)
(* Numbers.  Force constants are small integers (exactly representable in  *)
(* float32 and float64).  A phase is an integer number of units of pi/628  *)
(* (about 0.005 rad), so that pi = 628 and the tolerance of np.isclose     *)
(* (atol = 1e-2, rtol = 1e-5) is a little less than two units around 0 and *)
(* a little more than two units around pi.  A value kept in a float32      *)
(* array (proper_phases, improper_phases) is the float32 rounding of the   *)
(* value assigned: of the phases of the model only 0 is a float32.         *)
(*                                                                         *)
(* Positions in an id tuple are 0-based in the source and 1-based here:    *)
(* torsion[i] of the source is t[i + 1].  Columns of the Fourier arrays    *)
(* keep the source's 0-based index.                                        *)
(***************************************************************************)
EXTENDS Integers, Sequences, FiniteSets, TLC

VARIABLES
    mol,                  \* the Molecule passed to from_lists (sorted)
    bonds, bond_k, bond_eq,       \* the raw bond lists passed to from_lists
    angles, angle_k, angle_eq,    \* the raw angle lists passed to from_lists
    allow_skip_improper,  \* the argument of from_lists
    weak_scalars,         \* the build: TRUE when NumPy compares a Python float
                          \* with a float32 scalar in float32 (NumPy >= 2)
    torsions,             \* the raw torsion entries the loop has read so far
    pc,                   \* "call" | "loop" | "returned" | "raised"
    err,                  \* the exception that ended the call, "" if none
    loc,                  \* the locals of from_lists after the lookups
    p,                    \* << >>, or <<the Parameters object>>
    d,                    \* << >>, or <<the dictionary to_dict returned>>
    q,                    \* << >>, or <<the object from_dict returned>>
    dict_err,             \* the exception from_dict raised, "" if none
    \* DatasetBuilder, match_molecules and to_grappa.main
    op,                   \* the batch loop that is running, "idle" if none
    batch,                \* the ids of the directory listing still to process
    built,                \* a DatasetBuilder has been constructed
    entries,              \* DatasetBuilder.entries (from_QM's local before)
    complete_entries,     \* DatasetBuilder.complete_entries
    permutations,         \* what match_molecules returned last, << >> if nothing
    out_dir,              \* the files of the output directory: name -> content
    saved,                \* the ids whose files the last writing call saved
    b_err,                \* the exception that ended the last call, "" if none
    counts,               \* num_total, num_success, num_err of to_grappa.main
    summary,              \* to_grappa.main has printed its summary
    calls,                \* the number of calls made so far
    call,                 \* the call made last, with its arguments
    found,                \* what the last loop iteration found on disk and
                          \* what the calls it made answered
    \* Parameters.write_to_dgl
    params,               \* << >>, or <<the Parameters write_to_dgl is called on>>
    allow_nan, n_periodicity_proper, n_periodicity_improper,   \* its arguments
    g,                    \* the k_ref data of the graph's n4 and n4_improper
    dgl_err               \* the exception write_to_dgl raised, "" if none,
                          \* "not called" before the call

buildervars == <<op, batch, built, entries, complete_entries, permutations,
                 out_dir, saved, b_err, counts, summary, calls, call, found>>

dglvars == <<params, allow_nan, n_periodicity_proper, n_periodicity_improper,
             g, dgl_err>>

vars == <<mol, bonds, bond_k, bond_eq, angles, angle_k, angle_eq,
          allow_skip_improper, weak_scalars, torsions, pc, err, loc, p, d, q,
          dict_err, buildervars, dglvars>>

-----------------------------------------------------------------------------
(* Bounds of the model *)

MaxRawBonds == 3
MaxRawAngles == 2
MaxTorsions == 2
N_PERIODICITY_PROPER == 2
N_PERIODICITY_IMPROPER == 2

(* Program constants *)

IMPROPER_CENTRAL_IDX == 2
PI == 628
ATOL == 199898
INV_RTOL == 100000

TWO_PI == 2 * PI

-----------------------------------------------------------------------------
(* Helpers *)

Range(s) == {s[i] : i \in DOMAIN s}

Abs(x) == IF x < 0 THEN -x ELSE x

\* Optional[...] of the dataclass: None, or a value.
None == [none |-> TRUE, v |-> << >>]

Some(x) == [none |-> FALSE, v |-> x]

\* list.index: the first position holding x; 0 stands for ValueError.
IndexOf(s, x) ==
    IF \E i \in DOMAIN s : s[i] = x
    THEN CHOOSE i \in DOMAIN s : s[i] = x /\ \A j \in DOMAIN s : s[j] = x => i <= j
    ELSE 0

\* len(np.unique(a, axis=0)) == len(a): no two rows of a are equal.
NoDuplicateRows(a) == \A i, j \in DOMAIN a : a[i] = a[j] => i = j

\* np.isclose(a, b, atol=1e-2) with the default rtol=1e-5, in phase units:
\* |a - b| <= atol + rtol * |b|, both sides multiplied by 1/rtol.
IsClose(a, b) == Abs(a - b) * INV_RTOL <= ATOL + Abs(b)

\* The value is kept unchanged by a store into a float32 array.
F32Exact(x) == x = 0

-----------------------------------------------------------------------------
(* Molecule: atoms (position -> id) and the canonical id tuple lists *)

Bent ==
    [atoms |-> (0 :> 7 @@ 1 :> 3 @@ 2 :> 5),
     bonds |-> << <<3, 5>>, <<3, 7>> >>,
     angles |-> << <<5, 3, 7>> >>,
     propers |-> << >>,
     impropers |-> << >>]

Branched ==
    [atoms |-> (0 :> 4 @@ 1 :> 8 @@ 2 :> 6 @@ 3 :> 2 @@ 4 :> 9),
     bonds |-> << <<2, 6>>, <<2, 9>>, <<4, 6>>, <<6, 8>> >>,
     angles |-> << <<2, 6, 4>>, <<2, 6, 8>>, <<4, 6, 8>>, <<6, 2, 9>> >>,
     propers |-> << <<4, 6, 2, 9>>, <<8, 6, 2, 9>> >>,
     impropers |-> << <<2, 4, 6, 8>>, <<4, 8, 6, 2>>, <<8, 2, 6, 4>> >>]

Molecules == {Bent, Branched}

-----------------------------------------------------------------------------
(* from_lists, bonds and angles: lines 255-284 *)

\* atoms[bonds], atoms[angles]: positional indices to atom ids.
ToIds(m, rows) == [i \in DOMAIN rows |-> [j \in DOMAIN rows[i] |-> m.atoms[rows[i][j]]]]

\* np.sort(bonds, axis=1), one row.
SortBond(b) == IF b[1] <= b[2] THEN b ELSE <<b[2], b[1]>>

\* np.where(angles[:,0] < angles[:,2], angles, angles[:,::-1]), one row.
SortAngle(a) == IF a[1] < a[3] THEN a ELSE <<a[3], a[2], a[1]>>

\* A variant that orders each row by positional index before the conversion
\* to atom ids.
CanonicalBonds_ByIndex(m, rows) ==
    ToIds(m, [i \in DOMAIN rows |-> SortBond(rows[i])])

CanonicalBonds(m, rows) == [i \in DOMAIN rows |-> SortBond(ToIds(m, rows)[i])]

CanonicalAngles(m, rows) == [i \in DOMAIN rows |-> SortAngle(ToIds(m, rows)[i])]

\* The asserts of lines 255-256 and 260-261.
LengthsOk(m, rb, rbk, rbeq, ra, rak, raeq) ==
    /\ Len(rb) = Len(rbeq) /\ Len(rbeq) = Len(rbk)
    /\ Len(ra) = Len(raeq) /\ Len(raeq) = Len(rak)
    /\ Len(rb) >= Len(m.bonds)
    /\ Len(ra) >= Len(m.angles)

\* A variant that checks the bond rows only.
NoDuplicates_BondsOnly(rb, ra) == NoDuplicateRows(rb)

\* The asserts of lines 264-265, made on the raw rows.
NoDuplicates(rb, ra) == NoDuplicateRows(rb) /\ NoDuplicateRows(ra)

\* bond_idxs, angle_idxs of lines 277-278 (0: list.index raised ValueError).
BondIdxs(m, rb) == [i \in DOMAIN m.bonds |-> IndexOf(CanonicalBonds(m, rb), m.bonds[i])]

AngleIdxs(m, ra) == [i \in DOMAIN m.angles |-> IndexOf(CanonicalAngles(m, ra), m.angles[i])]

\* The locals of from_lists: the looked-up bond and angle parameters and the
\* four Fourier arrays (rows as in mol.propers / mol.impropers, columns 0-based).
NoLocals ==
    [bond_k |-> << >>, bond_eq |-> << >>, angle_k |-> << >>, angle_eq |-> << >>,
     proper_ks |-> << >>, proper_phases |-> << >>,
     improper_ks |-> << >>, improper_phases |-> << >>]

\* np.zeros((rows, columns)) of lines 289-292.
Zeros(rows, columns) == [r \in DOMAIN rows |-> [c \in 0..(columns - 1) |-> 0]]

\* The part of from_lists before the torsion loop: the locals, or the error.
Lookup(m, rb, rbk, rbeq, ra, rak, raeq) ==
    IF ~LengthsOk(m, rb, rbk, rbeq, ra, rak, raeq) \/ ~NoDuplicates(rb, ra)
    THEN [err |-> "AssertionError", l |-> NoLocals]
    ELSE IF \/ \E i \in DOMAIN m.bonds : BondIdxs(m, rb)[i] = 0
            \/ \E i \in DOMAIN m.angles : AngleIdxs(m, ra)[i] = 0
    THEN [err |-> "ValueError", l |-> NoLocals]
    ELSE [err |-> "",
          l |-> [bond_k |-> [i \in DOMAIN m.bonds |-> rbk[BondIdxs(m, rb)[i]]],
                 bond_eq |-> [i \in DOMAIN m.bonds |-> rbeq[BondIdxs(m, rb)[i]]],
                 angle_k |-> [i \in DOMAIN m.angles |-> rak[AngleIdxs(m, ra)[i]]],
                 angle_eq |-> [i \in DOMAIN m.angles |-> raeq[AngleIdxs(m, ra)[i]]],
                 proper_ks |-> Zeros(m.propers, N_PERIODICITY_PROPER),
                 proper_phases |-> Zeros(m.propers, N_PERIODICITY_PROPER),
                 improper_ks |-> Zeros(m.impropers, N_PERIODICITY_IMPROPER),
                 improper_phases |-> Zeros(m.impropers, N_PERIODICITY_IMPROPER)]]

-----------------------------------------------------------------------------
(* Molecule.is_improper: the central atom is the one bonded to the other   *)
(* three; a torsion without one is a proper torsion (a bonded chain).      *)

Bonded(m, x, y) == SortBond(<<x, y>>) \in Range(m.bonds)

CentralPositions(m, t) ==
    {i \in 1..4 : \A j \in (1..4) \ {i} : Bonded(m, t[i], t[j])}

is_improper(m, t) ==
    IF CentralPositions(m, t) = {}
    THEN [is_improper |-> FALSE, central_atom_position |-> -1]
    ELSE [is_improper |-> TRUE,
          central_atom_position |->
              (CHOOSE i \in CentralPositions(m, t) :
                   \A j \in CentralPositions(m, t) : i <= j) - 1]

-----------------------------------------------------------------------------
(* from_lists, one iteration of the torsion loop: lines 295-383 *)

\* A variant that flips the sign of k and leaves the phase.
NormalizedPhase_Unshifted(k, phase) == phase

\* Line 300: a sign flip of k is a phase shift by pi.
NormalizedPhase(k, phase) == IF k > 0 THEN phase ELSE (phase + PI) % TWO_PI

\* Line 301.
NormalizedK(k) == IF k > 0 THEN k ELSE -k

\* a[row, i] of an array with n columns: i may count from the end.
ColumnInRange(n, i) == -n <= i /\ i < n

Column(n, i) == IF i >= 0 THEN i ELSE i + n

\* Line 313: the dihedral is invariant under reversal.
SortProper(t) == IF t[1] < t[4] THEN t ELSE <<t[4], t[3], t[2], t[1]>>

\* A variant that adds the coefficients whatever the phases.
PhaseDiffers_Never(weak, phase, stored) == FALSE

\* Line 322: phase != proper_phases[...], a Python float against a float32
\* scalar.  NumPy >= 2 rounds the float to float32 first; older NumPy widens
\* the float32 to float64, so that equal phases differ unless the phase is a
\* float32 already.
PhaseDiffers(weak, phase, stored) ==
    IF weak THEN phase # stored ELSE ~(phase = stored /\ F32Exact(phase))

\* Lines 308-330.
ProperIter(m, weak, l, t, k, phase, periodicity) ==
    LET torsion == SortProper(t)
        proper_idx == IndexOf(m.propers, torsion)
        col == Column(N_PERIODICITY_PROPER, periodicity - 1)
    IN  IF periodicity > N_PERIODICITY_PROPER THEN [err |-> "ValueError", l |-> l]
        ELSE IF proper_idx = 0 THEN [err |-> "ValueError", l |-> l]
        ELSE IF ~ColumnInRange(N_PERIODICITY_PROPER, periodicity - 1)
        THEN [err |-> "IndexError", l |-> l]
        ELSE IF l.proper_ks[proper_idx][col] # 0
        THEN IF PhaseDiffers(weak, phase, l.proper_phases[proper_idx][col])
             THEN [err |-> "RuntimeError", l |-> l]
             ELSE [err |-> "",
                   l |-> [l EXCEPT !.proper_ks[proper_idx][col] = @ + k]]
        ELSE [err |-> "",
              l |-> [l EXCEPT !.proper_ks[proper_idx][col] = k,
                              !.proper_phases[proper_idx][col] = phase]]

\* A variant without the reversal.
ImproperPermutations_NoReversal ==
    << [sign |-> 1, permutation |-> <<0, 1, 2, 3>>],
       [sign |-> -1, permutation |-> <<0, 2, 1, 3>>],
       [sign |-> -1, permutation |-> <<3, 1, 2, 0>>] >>

\* Line 358: the sign and the permutation of each candidate, in order.
ImproperPermutations ==
    << [sign |-> 1, permutation |-> <<0, 1, 2, 3>>],
       [sign |-> 1, permutation |-> <<3, 2, 1, 0>>],
       [sign |-> -1, permutation |-> <<0, 2, 1, 3>>],
       [sign |-> -1, permutation |-> <<3, 1, 2, 0>>] >>

\* Line 359.
Permuted(t, permutation) == [i \in 1..4 |-> t[permutation[i] + 1]]

\* A variant that accepts an antisymmetric permutation for every phase.
Accepted_AnyPhase(m, t, phase, c) ==
    IndexOf(m.impropers, Permuted(t, c.permutation)) # 0

\* Lines 361-367: the candidate is in mol.impropers and is not an
\* antisymmetric permutation of a term whose phase is neither 0 nor pi.
Accepted(m, t, phase, c) ==
    /\ IndexOf(m.impropers, Permuted(t, c.permutation)) # 0
    /\ ~(~IsClose(phase, 0) /\ ~IsClose(phase, PI) /\ c.sign = -1)

\* Lines 343-348.
Incompatible(central_atom_position) ==
    \/ central_atom_position \in {0, 3} /\ IMPROPER_CENTRAL_IDX \notin {0, 3}
    \/ central_atom_position \in {1, 2} /\ IMPROPER_CENTRAL_IDX \notin {1, 2}

\* A variant that raises whatever allow_skip_improper is.
SkipOrRaise_AlwaysRaise(skip, l) == [err |-> "RuntimeError", l |-> l]

\* Lines 349-353 and 379-383: continue under allow_skip_improper, raise
\* RuntimeError otherwise.
SkipOrRaise(skip, l) == [err |-> IF skip THEN "" ELSE "RuntimeError", l |-> l]

\* A variant that never finds the cell populated.
ImproperPopulated_Never(l, improper_idx, col) == FALSE

\* Line 371: improper_ks[improper_idx, periodicity-1] != 0.
ImproperPopulated(l, improper_idx, col) == l.improper_ks[improper_idx][col] # 0

\* A variant that treats a populated cell as the other failures to resolve.
AppearsTwice_Skippable(skip, l) ==
    [err |-> IF skip THEN "" ELSE "ValueError", l |-> l]

\* Line 372: the ValueError "appears twice"; allow_skip_improper is not read.
AppearsTwice(skip, l) == [err |-> "ValueError", l |-> l]

\* Lines 340-383.
ImproperIter(m, skip, l, t, k, phase, periodicity, central_atom_position) ==
    LET accepted == {i \in DOMAIN ImproperPermutations :
                      Accepted(m, t, phase, ImproperPermutations[i])}
        first == CHOOSE i \in accepted : \A j \in accepted : i <= j
        c == ImproperPermutations[first]
        improper_idx == IndexOf(m.impropers, Permuted(t, c.permutation))
        col == Column(N_PERIODICITY_IMPROPER, periodicity - 1)
    IN  IF periodicity > N_PERIODICITY_IMPROPER THEN [err |-> "ValueError", l |-> l]
        ELSE IF Incompatible(central_atom_position) THEN SkipOrRaise(skip, l)
        ELSE IF accepted = {} THEN SkipOrRaise(skip, l)
        ELSE IF ~ColumnInRange(N_PERIODICITY_IMPROPER, periodicity - 1)
        THEN [err |-> "IndexError", l |-> l]
        ELSE IF ImproperPopulated(l, improper_idx, col) THEN AppearsTwice(skip, l)
        ELSE [err |-> "",
              l |-> [l EXCEPT !.improper_ks[improper_idx][col] = c.sign * k,
                              !.improper_phases[improper_idx][col] = phase]]

\* Lines 295-383: the locals after the iteration on raw entry e, or the error.
TorsionIter(m, skip, weak, l, e) ==
    LET phase == NormalizedPhase(e.k, e.phase)
        torsion_k == NormalizedK(e.k)
        torsion == [i \in 1..4 |-> m.atoms[e.t[i]]]
        imp == is_improper(m, torsion)
    IN  IF e.k = 0 THEN [err |-> "", l |-> l]
        ELSE IF ~imp.is_improper
        THEN ProperIter(m, weak, l, torsion, torsion_k, phase, e.periodicity)
        ELSE ImproperIter(m, skip, l, torsion, torsion_k, phase, e.periodicity,
                          imp.central_atom_position)

-----------------------------------------------------------------------------
(* The inputs of the calls that are explored *)

\* Non-empty sequences over S of length at most n.
SeqsUpTo(S, n) == UNION {[1..len -> S] : len \in 1..n}

\* Raw bond rows of Bent: its two bonds in both orientations and a pair of
\* atoms that are not bonded.  Raw rows of Branched: one list of all bonds.
RawBonds(m) ==
    IF m = Bent
    THEN SeqsUpTo({<<0, 1>>, <<1, 0>>, <<1, 2>>, <<2, 1>>, <<0, 2>>}, MaxRawBonds)
    ELSE {<< <<0, 2>>, <<2, 1>>, <<2, 3>>, <<4, 3>> >>}

\* Raw angle rows of Bent: its angle in both orientations and a triple that
\* is not an angle.  Raw rows of Branched: one list of all angles.
RawAngles(m) ==
    IF m = Bent
    THEN SeqsUpTo({<<0, 1, 2>>, <<2, 1, 0>>, <<1, 0, 2>>}, MaxRawAngles)
    ELSE {<< <<0, 2, 1>>, <<3, 2, 0>>, <<1, 2, 3>>, <<2, 3, 4>> >>}

\* The parameter lists that go with raw rows: entry i has parameters of its own.
RawK(rows) == [i \in DOMAIN rows |-> 100 + i]

RawEq(rows) == [i \in DOMAIN rows |-> 200 + i]

Entry(t, k, phase, periodicity) ==
    [t |-> t, k |-> k, phase |-> phase, periodicity |-> periodicity]

\* Raw proper torsions of Branched: the chain 0-2-3-4 in both orientations,
\* with coefficients of both signs, phases 0, pi/2 and pi, and periodicities
\* from 0 to one above the limit; and the chain 1-2-3-4.
RawPropers ==
    {Entry(t, kp[1], kp[2], n) :
        t \in {<<0, 2, 3, 4>>, <<4, 3, 2, 0>>},
        kp \in {<<1, 0>>, <<-2, PI>>, <<1, 314>>},
        n \in {0, 1, N_PERIODICITY_PROPER, N_PERIODICITY_PROPER + 1}}
    \cup {Entry(<<1, 2, 3, 4>>, 1, 0, 1)}

\* Raw improper torsions of Branched around atom 2 (id 6): the row
\* (0, 1, 2, 3) as it is, reversed, with positions 1 and 2 swapped, and both;
\* the other orderings of the three substituents with the central atom
\* second or third; the central atom first and last; periodicities 0 and
\* above the limit.
RawImpropers ==
    {Entry(t, kp[1], kp[2], 1) :
        t \in {<<0, 1, 2, 3>>, <<3, 2, 1, 0>>, <<0, 2, 1, 3>>, <<3, 1, 2, 0>>},
        kp \in {<<1, 0>>, <<-2, 0>>, <<1, 314>>, <<1, 630>>}}
    \cup {Entry(t, kp[1], kp[2], 1) :
            t \in {<<1, 3, 2, 0>>, <<1, 0, 2, 3>>, <<0, 3, 2, 1>>,
                   <<1, 2, 3, 0>>, <<3, 2, 0, 1>>, <<0, 2, 3, 1>>, <<1, 2, 0, 3>>},
            kp \in {<<1, 0>>, <<-2, 0>>}}
    \cup {Entry(<<3, 0, 2, 1>>, 1, 0, 1), Entry(<<2, 0, 1, 3>>, 1, 0, 1),
          Entry(<<0, 1, 3, 2>>, -1, 314, N_PERIODICITY_IMPROPER),
          Entry(<<2, 0, 1, 3>>, 1, 0, N_PERIODICITY_IMPROPER + 1),
          Entry(<<0, 1, 2, 3>>, 1, 0, 0),
          Entry(<<0, 1, 2, 3>>, 1, 0, N_PERIODICITY_IMPROPER + 1)}

\* The raw torsion entries a caller may pass; one has coefficient 0.
TorsionInputs(m) ==
    IF m = Bent
    THEN {Entry(<<0, 1, 2, 0>>, 0, 0, 1)}
    ELSE RawPropers \cup RawImpropers \cup {Entry(<<0, 2, 3, 4>>, 0, 314, 1)}

-----------------------------------------------------------------------------
(* The state machine of from_lists *)

\* No DatasetBuilder call and no to_grappa run is made.
NoBuilder ==
    /\ op = "idle" /\ batch = << >> /\ built = FALSE
    /\ entries = << >> /\ complete_entries = {} /\ permutations = << >>
    /\ out_dir = << >> /\ saved = {} /\ b_err = ""
    /\ counts = [num_total |-> 0, num_success |-> 0, num_err |-> 0,
                 total_mols |-> 0]
    /\ summary = FALSE /\ calls = 0 /\ call = [name |-> ""]
    /\ found = [kind |-> ""]

\* write_to_dgl is not called.
NoGraph ==
    /\ params = << >> /\ allow_nan = TRUE
    /\ n_periodicity_proper = N_PERIODICITY_PROPER
    /\ n_periodicity_improper = N_PERIODICITY_IMPROPER
    /\ g = [n2_k |-> None, n2_eq |-> None, n3_k |-> None, n3_eq |-> None,
            n4 |-> None, n4_improper |-> None]
    /\ dgl_err = "not called"

Init ==
    /\ mol \in Molecules
    /\ bonds \in RawBonds(mol)
    /\ bond_k = RawK(bonds)
    /\ bond_eq = RawEq(bonds)
    /\ angles \in RawAngles(mol)
    /\ angle_k = RawK(angles)
    /\ angle_eq = RawEq(angles)
    /\ allow_skip_improper \in (IF mol = Bent THEN {FALSE} ELSE BOOLEAN)
    /\ weak_scalars \in (IF mol = Bent THEN {TRUE} ELSE BOOLEAN)
    /\ torsions = << >>
    /\ pc = "call"
    /\ err = ""
    /\ loc = NoLocals
    /\ p = << >>
    /\ d = << >>
    /\ q = << >>
    /\ dict_err = ""
    /\ NoBuilder
    /\ NoGraph

inputs == <<mol, bonds, bond_k, bond_eq, angles, angle_k, angle_eq,
            allow_skip_improper, weak_scalars>>

\* from_lists up to the torsion loop: lines 229-292.
Call ==
    /\ pc = "call"
    /\ LET r == Lookup(mol, bonds, bond_k, bond_eq, angles, angle_k, angle_eq)
       IN  /\ err' = r.err
           /\ loc' = r.l
           /\ pc' = IF r.err = "" THEN "loop" ELSE "raised"
    /\ UNCHANGED <<inputs, torsions, p, d, q, dict_err, buildervars, dglvars>>

\* One iteration of the loop of line 295 on the next raw torsion entry.
Iterate ==
    /\ pc = "loop"
    /\ Len(torsions) < MaxTorsions
    /\ \E e \in TorsionInputs(mol) :
          LET r == TorsionIter(mol, allow_skip_improper, weak_scalars, loc, e)
          IN  /\ torsions' = Append(torsions, e)
              /\ err' = r.err
              /\ loc' = r.l
              /\ pc' = IF r.err = "" THEN "loop" ELSE "raised"
    /\ UNCHANGED <<inputs, p, d, q, dict_err, buildervars, dglvars>>

\* cls(...) of lines 387-401.
MakeParameters(m, l) ==
    [atoms |-> m.atoms,
     bonds |-> m.bonds, bond_k |-> l.bond_k, bond_eq |-> l.bond_eq,
     angles |-> m.angles, angle_k |-> l.angle_k, angle_eq |-> l.angle_eq,
     propers |-> m.propers, proper_ks |-> l.proper_ks,
     proper_phases |-> l.proper_phases,
     impropers |-> Some(m.impropers), improper_ks |-> Some(l.improper_ks),
     improper_phases |-> Some(l.improper_phases)]

\* The raw torsion list is exhausted: from_lists returns, lines 387-401.
Return ==
    /\ pc = "loop"
    /\ p' = <<MakeParameters(mol, loc)>>
    /\ pc' = "returned"
    /\ UNCHANGED <<inputs, torsions, err, loc, d, q, dict_err, buildervars, dglvars>>

Next == Call \/ Iterate \/ Return

Spec == Init /\ [][Next]_vars

-----------------------------------------------------------------------------
(* Parameters as an object: the dataclass, to_dict, from_dict *)

FieldNames ==
    {"atoms", "bonds", "bond_k", "bond_eq", "angles", "angle_k", "angle_eq",
     "propers", "proper_ks", "proper_phases",
     "impropers", "improper_ks", "improper_phases"}

ImproperFieldNames == {"impropers", "improper_ks", "improper_phases"}

\* to_dict, lines 403-424: the improper arrays only if impropers is not None.
to_dict(self) ==
    LET keys == IF self.impropers.none THEN FieldNames \ ImproperFieldNames
                ELSE FieldNames
    IN  [key \in keys |-> self[key]]

\* cls(**array_dict), line 432: the dataclass has thirteen fields without a
\* default, lines 43-59; a missing keyword is a TypeError.
from_dict(array_dict) ==
    IF DOMAIN array_dict = FieldNames
    THEN [err |-> "", obj |-> <<array_dict>>]
    ELSE [err |-> "TypeError", obj |-> << >>]

\* A Parameters constructed with the same arrays and no impropers
\* (impropers, improper_ks, improper_phases are Optional, lines 57-59).
WithoutImpropers ==
    /\ pc = "returned"
    /\ d = << >>
    /\ ~p[1].impropers.none
    /\ p' = <<[p[1] EXCEPT !.impropers = None, !.improper_ks = None,
                           !.improper_phases = None]>>
    /\ UNCHANGED <<inputs, torsions, pc, err, loc, d, q, dict_err, buildervars, dglvars>>

ToDict ==
    /\ pc = "returned"
    /\ d = << >>
    /\ d' = <<to_dict(p[1])>>
    /\ UNCHANGED <<inputs, torsions, pc, err, loc, p, q, dict_err, buildervars, dglvars>>

FromDict ==
    /\ d # << >>
    /\ q = << >>
    /\ dict_err = ""
    /\ LET r == from_dict(d[1])
       IN  /\ q' = r.obj
           /\ dict_err' = r.err
    /\ UNCHANGED <<inputs, torsions, pc, err, loc, p, d, buildervars, dglvars>>

NextDict == Next \/ WithoutImpropers \/ ToDict \/ FromDict

SpecDict == Init /\ [][NextDict]_vars

-----------------------------------------------------------------------------
(* dataset_builder.py: match_molecules                                     *)

(* Bounds of the batch model *)

MaxMols == 2
MaxSources == 2
AtomCount == 2
MaxCalls == 3

\* The atom orders: permutations of the atom indices 0..n-1.
Perms(n) == {f \in [1..n -> 0..(n - 1)] : \A i, j \in 1..n : f[i] = f[j] => i = j}

\* list(range(len(molecules[0].atoms))), line 29.
Identity(n) == [i \in 1..n |-> i - 1]

\* What the graph utilities may answer for `count` graphs: the indices idx2
\* of the pairs [0, idx2] that get_isomorphisms reports (graph 0 is among the
\* graphs it is compared with), and the permutation that
\* get_isomorphic_permutation returns for each.
OracleAnswers(n, count) ==
    UNION {{[iso |-> iso, perm |-> perm] : perm \in [iso -> Perms(n)]} :
              iso \in SUBSET (0..(count - 1))}

\* A variant that keeps the identity for the first molecule.
match_molecules_KeepFirst(n, count, answer) ==
    IF count = 0 THEN [err |-> "IndexError", permutations |-> << >>]
    ELSE IF count = 1 THEN [err |-> "", permutations |-> (0 :> Identity(n))]
    ELSE [err |-> "",
          permutations |-> [idx \in {0} \cup answer.iso |->
                               IF idx = 0 THEN Identity(n) ELSE answer.perm[idx]]]

\* match_molecules, lines 25-51: key 0 is set to the identity, then every
\* reported pair [idx1, idx2] sets key idx2; molecules[0] of an empty list is
\* an IndexError.
match_molecules(n, count, answer) ==
    IF count = 0 THEN [err |-> "IndexError", permutations |-> << >>]
    ELSE IF count = 1 THEN [err |-> "", permutations |-> (0 :> Identity(n))]
    ELSE [err |-> "",
          permutations |-> [idx \in {0} \cup answer.iso |->
                               IF idx \in answer.iso THEN answer.perm[idx]
                               ELSE Identity(n)]]

-----------------------------------------------------------------------------
(* dataset_builder.py: DatasetBuilder.from_QM                              *)

\* What a QM file holds, per conformation: all of positions, energy and
\* forces, or no energy, or no forces (PropertyNotImplementedError).
ConformationLists ==
    {<<"complete">>, <<"no_energy">>, <<"no_forces", "complete">>}

\* The gaussian files of a subdirectory: none, or up to MaxSources files;
\* of the subdirectories after the first: none, or one file.
SourceLists(mol_id) ==
    {<< >>} \cup SeqsUpTo(ConformationLists, IF mol_id = 1 THEN MaxSources ELSE 1)

\* The coordinates of the atom at index i of conformation c of file idx, as
\* the file has them: three numbers that no other atom has.
Raw(idx, c, i) ==
    LET atom == 100 * (idx + 1) + 10 * c + i
    IN  <<3 * atom, 3 * atom + 1, 3 * atom + 2>>

\* a[permutation] along the first axis.
Permute(a, permutation) == [i \in DOMAIN permutation |-> a[permutation[i] + 1]]

\* -a of an array of shape (atoms, 3).
Negated(a) == [i \in DOMAIN a |-> [j \in DOMAIN a[i] |-> -a[i][j]]]

\* Lines 87-97: the conformations of file idx that have all three
\* properties, positions and forces permuted; the others are left out.
RECURSIVE Conformers(_, _, _, _)
Conformers(file, idx, permutation, c) ==
    IF c > Len(file) THEN << >>
    ELSE (IF file[c] = "complete"
          THEN LET positions == [i \in 1..AtomCount |-> Raw(idx, c, i)]
               IN  <<[xyz |-> Permute(positions, permutation),
                      energy |-> 100 * (idx + 1) + 10 * c,
                      gradient |-> Negated(Permute(positions, permutation))]>>
          ELSE << >>)
         \o Conformers(file, idx, permutation, c + 1)

\* A variant that merges every file, an unmatched one in its own atom order.
RECURSIVE Merge_AllSources(_, _, _)
Merge_AllSources(files, perms, idx) ==
    IF idx >= Len(files) THEN << >>
    ELSE Conformers(files[idx + 1], idx,
                    IF idx \in DOMAIN perms THEN perms[idx] ELSE Identity(AtomCount),
                    1)
         \o Merge_AllSources(files, perms, idx + 1)

\* Lines 82-100: QM_data, merged over the keys of permutations.
RECURSIVE Merge(_, _, _)
Merge(files, perms, idx) ==
    IF idx >= Len(files) THEN << >>
    ELSE (IF idx \in DOMAIN perms
          THEN Conformers(files[idx + 1], idx, perms[idx], 1) ELSE << >>)
         \o Merge(files, perms, idx + 1)

\* np.asarray(...).squeeze(), line 108: a single conformation loses the
\* conformation axis (there are at least two atoms).
Squeeze(list) ==
    IF Len(list) = 1 THEN [squeezed |-> TRUE, a |-> list[1]]
    ELSE [squeezed |-> FALSE, a |-> list]

\* MolData(molecule=molecules[0], xyz=..., energy=..., gradient=...), line 111.
MolData(QM_data) ==
    [molecule |-> "qm",
     xyz |-> Squeeze([c \in DOMAIN QM_data |-> QM_data[c].xyz]),
     energy |-> Squeeze([c \in DOMAIN QM_data |-> QM_data[c].energy]),
     gradient |-> Squeeze([c \in DOMAIN QM_data |-> QM_data[c].gradient]),
     ff_data |-> FALSE,
     bonded |-> TRUE]

\* The directory listings a call may find: the ids in sorted order.
Listings == {<< >>, <<1>>} \cup {[i \in 1..n |-> i] : n \in 2..MaxMols}
            \cup {<<MaxMols>>}

\* The variables that to_grappa.main alone writes.
mainvars == <<counts, summary>>

\* The variables of from_lists, to_dict, from_dict and write_to_dgl.
notbuilder == <<inputs, torsions, pc, err, loc, p, d, q, dict_err, dglvars>>

\* A call starts: the listing is read and the loop entered.
Enter(name) ==
    /\ op = "idle"
    /\ calls < MaxCalls
    /\ calls' = calls + 1
    /\ call' = [name |-> name]
    /\ found' = [kind |-> ""]
    /\ op' = name
    /\ b_err' = ""
    /\ \E listing \in Listings : batch' = listing

\* from_QM is called: lines 63-64.
CallFromQM ==
    /\ Enter("from_QM")
    /\ built' = FALSE
    /\ entries' = << >>
    /\ complete_entries' = {}
    /\ permutations' = << >>
    /\ UNCHANGED <<out_dir, saved, mainvars, notbuilder>>

\* One iteration of the loop of line 65, on the next subdirectory.
FromQMStep ==
    /\ op = "from_QM"
    /\ batch # << >>
    /\ \E files \in SourceLists(Head(batch)) :
       \E answer \in OracleAnswers(AtomCount, Len(files)) :
          LET mol_id == Head(batch)
              r == match_molecules(AtomCount, Len(files), answer)
              QM_data == Merge(files, r.permutations, 0)
          IN  /\ found' = [kind |-> "from_QM", mol_id |-> mol_id,
                            files |-> files, answer |-> answer]
              /\ IF r.err # ""
                 THEN /\ b_err' = r.err
                      /\ op' = "idle"
                      /\ UNCHANGED <<batch, entries, permutations>>
                 ELSE /\ permutations' = r.permutations
                      /\ batch' = Tail(batch)
                      /\ entries' = IF QM_data = << >> THEN entries
                                    ELSE (mol_id :> MolData(QM_data)) @@ entries
                      /\ UNCHANGED <<op, b_err>>
    /\ UNCHANGED <<built, complete_entries, out_dir, saved, mainvars, calls, call, notbuilder>>

\* cls(entries=entries), line 114.
FromQMReturn ==
    /\ op = "from_QM"
    /\ batch = << >>
    /\ op' = "idle"
    /\ built' = TRUE
    /\ complete_entries' = {}
    /\ permutations' = << >>
    /\ found' = [kind |-> ""]
    /\ UNCHANGED <<batch, entries, out_dir, saved, b_err, mainvars, calls, call,
                   notbuilder>>

-----------------------------------------------------------------------------
(* dataset_builder.py: add_nonbonded_from_gmx_top, remove_bonded_parameters,*)
(* write_to_dir                                                            *)

\* a[:, permutation], lines 144-145: the atoms of every conformation, or, of
\* an array that lost its conformation axis, the coordinates of every atom.
PermuteAxis1(x, permutation) ==
    IF ~x.squeezed
    THEN [err |-> "",
          x |-> [x EXCEPT !.a = [c \in DOMAIN x.a |-> Permute(x.a[c], permutation)]]]
    ELSE IF \E j \in DOMAIN permutation : permutation[j] >= 3
    THEN [err |-> "IndexError", x |-> x]
    ELSE [err |-> "",
          x |-> [x EXCEPT !.a = [i \in DOMAIN x.a |-> Permute(x.a[i], permutation)]]]

\* What the step finds and what the calls it makes do: the topology file,
\* the graph utilities' answer, and add_ff_data and _validate of MolData.
TopFiles == {"none", "unreadable", "found"}

FFOutcomes == {"ok", "add_ff_data raises", "_validate raises"}

\* A variant that marks the entry complete as soon as it is matched.
Augment_MarkFirst(entry, permutation, outcome) ==
    LET xyz == PermuteAxis1(entry.xyz, permutation)
        gradient == PermuteAxis1(entry.gradient, permutation)
        replaced == [entry EXCEPT !.molecule = "top"]
    IN  IF xyz.err # ""
        THEN [err |-> xyz.err, entry |-> replaced, complete |-> TRUE]
        ELSE IF outcome = "add_ff_data raises"
        THEN [err |-> "Exception", complete |-> TRUE,
              entry |-> [replaced EXCEPT !.xyz = xyz.x, !.gradient = gradient.x]]
        ELSE [err |-> IF outcome = "ok" THEN "" ELSE "Exception",
              complete |-> TRUE,
              entry |-> [replaced EXCEPT !.xyz = xyz.x, !.gradient = gradient.x,
                                         !.ff_data = TRUE]]

\* Lines 142-150 on a matched entry: the molecule is replaced, xyz and
\* gradient are permuted, add_ff_data and _validate run, and the id is added
\* to complete_entries; an exception leaves what was assigned before it.
Augment(entry, permutation, outcome) ==
    LET xyz == PermuteAxis1(entry.xyz, permutation)
        gradient == PermuteAxis1(entry.gradient, permutation)
        replaced == [entry EXCEPT !.molecule = "top"]
    IN  IF xyz.err # ""
        THEN [err |-> xyz.err, entry |-> replaced, complete |-> FALSE]
        ELSE IF outcome = "add_ff_data raises"
        THEN [err |-> "Exception", complete |-> FALSE,
              entry |-> [replaced EXCEPT !.xyz = xyz.x, !.gradient = gradient.x]]
        ELSE [err |-> IF outcome = "ok" THEN "" ELSE "Exception",
              complete |-> outcome = "ok",
              entry |-> [replaced EXCEPT !.xyz = xyz.x, !.gradient = gradient.x,
                                         !.ff_data = TRUE]]

\* add_nonbonded_from_gmx_top is called: line 119.
CallAddNonbonded ==
    /\ built
    /\ Enter("add_nonbonded_from_gmx_top")
    /\ UNCHANGED <<built, entries, complete_entries, permutations, out_dir,
                   saved, mainvars, notbuilder>>

\* Lines 134-150: the topology file is parsed and the entry matched.
Matching(mol_id) ==
    \E answer \in OracleAnswers(AtomCount, 2) :
       LET r == match_molecules(AtomCount, 2, answer)
       IN  /\ permutations' = r.permutations
           /\ IF Cardinality(DOMAIN r.permutations) # 2
              THEN /\ found' = [kind |-> "add_nonbonded_from_gmx_top",
                                mol_id |-> mol_id, top |-> "found",
                                answer |-> answer, outcome |-> ""]
                   /\ batch' = Tail(batch)
                   /\ UNCHANGED <<op, b_err, entries, complete_entries>>
              ELSE \E outcome \in FFOutcomes :
                     LET a == Augment(entries[mol_id], r.permutations[1], outcome)
                     IN  /\ found' = [kind |-> "add_nonbonded_from_gmx_top",
                                      mol_id |-> mol_id, top |-> "found",
                                      answer |-> answer, outcome |-> outcome]
                         /\ entries' = [entries EXCEPT ![mol_id] = a.entry]
                         /\ complete_entries' =
                               IF a.complete THEN complete_entries \cup {mol_id}
                               ELSE complete_entries
                         /\ b_err' = a.err
                         /\ op' = IF a.err = "" THEN op ELSE "idle"
                         /\ batch' = IF a.err = "" THEN Tail(batch) ELSE batch

\* Lines 123-131: the id is not an entry, or its directory has no topology
\* file: the iteration ends.
Skipping(mol_id, top) ==
    /\ found' = [kind |-> "add_nonbonded_from_gmx_top", mol_id |-> mol_id,
                 top |-> top, answer |-> << >>, outcome |-> ""]
    /\ batch' = Tail(batch)
    /\ UNCHANGED <<op, b_err, entries, complete_entries, permutations>>

\* One iteration of the loop of line 120, on the next subdirectory.
AddNonbondedStep ==
    /\ op = "add_nonbonded_from_gmx_top"
    /\ batch # << >>
    /\ LET mol_id == Head(batch)
       IN  IF mol_id \notin DOMAIN entries
           THEN Skipping(mol_id, "not looked for")
           ELSE \E top \in TopFiles :
                  IF top = "none" THEN Skipping(mol_id, top)
                  ELSE IF top = "unreadable"
                  THEN /\ found' = [kind |-> "add_nonbonded_from_gmx_top",
                                    mol_id |-> mol_id, top |-> top,
                                    answer |-> << >>, outcome |-> ""]
                       /\ op' = "idle"
                       /\ b_err' = "Exception"
                       /\ UNCHANGED <<batch, entries, complete_entries,
                                      permutations>>
                  ELSE Matching(mol_id)
    /\ UNCHANGED <<built, out_dir, saved, mainvars, calls, call, notbuilder>>

\* The listing is exhausted: the method returns.
AddNonbondedReturn ==
    /\ op = "add_nonbonded_from_gmx_top"
    /\ batch = << >>
    /\ op' = "idle"
    /\ permutations' = << >>
    /\ found' = [kind |-> ""]
    /\ UNCHANGED <<batch, built, entries, complete_entries, out_dir, saved,
                   b_err, mainvars, calls, call, notbuilder>>

\* remove_bonded_parameters, lines 152-162.
RemoveBondedParameters ==
    /\ op = "idle"
    /\ built
    /\ calls < MaxCalls
    /\ calls' = calls + 1
    /\ call' = [name |-> "remove_bonded_parameters"]
    /\ found' = [kind |-> ""]
    /\ b_err' = ""
    /\ entries' = [mol_id \in DOMAIN entries |->
                      [entries[mol_id] EXCEPT !.bonded = FALSE]]
    /\ UNCHANGED <<op, batch, built, complete_entries, permutations, out_dir,
                   saved, mainvars, notbuilder>>

\* <mol_id>.npz, line 181; another file of a directory is (0, "txt").
NpzName(mol_id) == <<mol_id, "npz">>

\* dataset_dir.glob('*npz'), line 168.
NpzsExisting(dir) == {name \in DOMAIN dir : name[2] = "npz"}

\* The ids write_to_dir saves, lines 174-178.
OutputEntries(ids, complete) == {entry_idx \in complete : entry_idx \in ids}

\* A variant without the guard of lines 169-173.
write_to_dir_Unguarded(dir, ids, complete, overwrite) ==
    [dir |-> [name \in DOMAIN dir \cup {NpzName(i) : i \in complete \cap ids} |->
                 IF name \in {NpzName(i) : i \in complete \cap ids}
                 THEN "MolData.save" ELSE dir[name]],
     saved |-> complete \cap ids]

\* write_to_dir, lines 164-181: the directory after the call and the ids
\* whose entries were saved; a file holds what wrote it.
write_to_dir(dir, ids, complete, overwrite) ==
    IF NpzsExisting(dir) # {} /\ ~overwrite
    THEN [dir |-> dir, saved |-> {}]
    ELSE LET output_entries == OutputEntries(ids, complete)
             names == {NpzName(i) : i \in output_entries}
         IN  [dir |-> [name \in DOMAIN dir \cup names |->
                          IF name \in names THEN "MolData.save" ELSE dir[name]],
              saved |-> output_entries]

WriteToDir ==
    /\ op = "idle"
    /\ built
    /\ calls < MaxCalls
    /\ calls' = calls + 1
    /\ b_err' = ""
    /\ found' = [kind |-> ""]
    /\ \E overwrite \in BOOLEAN :
          LET r == write_to_dir(out_dir, DOMAIN entries, complete_entries,
                                overwrite)
          IN  /\ out_dir' = r.dir
              /\ saved' = r.saved
              /\ call' = [name |-> "write_to_dir", overwrite |-> overwrite]
    /\ UNCHANGED <<op, batch, built, entries, complete_entries, permutations,
                   mainvars, notbuilder>>

-----------------------------------------------------------------------------
(* to_grappa.py: main                                                      *)

\* What an iteration finds: a directory, a file that is converted and
\* saved, a file on which np.load or from_data_dict raises (line 28 or 32),
\* a file whose save raises (line 37); the handler of lines 40-42 counts the
\* error and raises it again.
MainOutcomes == {"is_dir", "ok", "load raises", "save raises"}

\* main is called: lines 12-20.
CallMain ==
    /\ Enter("main")
    /\ counts' = [num_total |-> 0, num_success |-> 0, num_err |-> 0,
                  total_mols |-> 0]
    /\ summary' = FALSE
    /\ saved' = {}
    /\ UNCHANGED <<built, entries, complete_entries, permutations, out_dir,
                   notbuilder>>

\* One iteration of the loop of line 22, on the next item of the listing.
MainStep ==
    /\ op = "main"
    /\ batch # << >>
    /\ \E outcome \in MainOutcomes :
          LET molfile == Head(batch)
              failed == outcome \in {"load raises", "save raises"}
          IN  /\ counts' =
                    IF outcome = "is_dir" THEN counts
                    ELSE [num_total |-> counts.num_total + 1,
                          num_success |-> counts.num_success
                                          + (IF outcome = "ok" THEN 1 ELSE 0),
                          num_err |-> counts.num_err + (IF failed THEN 1 ELSE 0),
                          total_mols |-> counts.total_mols
                                         + (IF outcome \in {"ok", "save raises"}
                                            THEN 1 ELSE 0)]
              /\ out_dir' = IF outcome = "ok"
                            THEN (NpzName(molfile) :> "MolData.save") @@ out_dir
                            ELSE out_dir
              /\ saved' = IF outcome = "ok" THEN saved \cup {molfile} ELSE saved
              /\ found' = [kind |-> "main", molfile |-> molfile,
                            outcome |-> outcome]
              /\ IF failed
                 THEN op' = "idle" /\ b_err' = "Exception" /\ batch' = batch
                 ELSE op' = op /\ b_err' = b_err /\ batch' = Tail(batch)
    /\ UNCHANGED <<built, entries, complete_entries, permutations, summary,
                   calls, call, notbuilder>>

\* Lines 46-49: the summary is printed.
MainReturn ==
    /\ op = "main"
    /\ batch = << >>
    /\ op' = "idle"
    /\ summary' = TRUE
    /\ found' = [kind |-> ""]
    /\ UNCHANGED <<batch, built, entries, complete_entries, permutations,
                   out_dir, saved, b_err, counts, calls, call, notbuilder>>

-----------------------------------------------------------------------------
(* The state machine of the batch calls *)

\* from_lists is not called.
NoFromLists ==
    /\ mol = Bent
    /\ bonds = << >> /\ bond_k = << >> /\ bond_eq = << >>
    /\ angles = << >> /\ angle_k = << >> /\ angle_eq = << >>
    /\ allow_skip_improper = FALSE /\ weak_scalars = TRUE
    /\ torsions = << >> /\ pc = "none" /\ err = "" /\ loc = NoLocals
    /\ p = << >> /\ d = << >> /\ q = << >> /\ dict_err = ""

\* The output directories a run may start with: empty, holding the npz file
\* of an earlier run, holding a file of another kind.
OutDirs ==
    {<< >>, (NpzName(1) :> "old"), (<<0, "txt">> :> "old")}

InitBuilder ==
    /\ NoFromLists
    /\ NoGraph
    /\ op = "idle" /\ batch = << >> /\ built = FALSE
    /\ entries = << >> /\ complete_entries = {} /\ permutations = << >>
    /\ out_dir \in OutDirs /\ saved = {} /\ b_err = ""
    /\ counts = [num_total |-> 0, num_success |-> 0, num_err |-> 0,
                 total_mols |-> 0]
    /\ summary = FALSE /\ calls = 0 /\ call = [name |-> ""]
    /\ found = [kind |-> ""]

\* The calls on a DatasetBuilder.
NextBuilder ==
    \/ CallFromQM \/ FromQMStep \/ FromQMReturn
    \/ CallAddNonbonded \/ AddNonbondedStep \/ AddNonbondedReturn
    \/ RemoveBondedParameters \/ WriteToDir

SpecBuilder == InitBuilder /\ [][NextBuilder]_vars

\* The runs of to_grappa.main.
NextMain == CallMain \/ MainStep \/ MainReturn

SpecMain == InitBuilder /\ [][NextMain]_vars

-----------------------------------------------------------------------------
(* Parameters.write_to_dgl: lines 435-492                                  *)

(* Bounds of the arrays write_to_dgl is called on *)

MaxColumns == 2
MaxWidth == 3

\* A float of an array: a number or nan.
Num(x) == [nan |-> FALSE, v |-> x]

NaN == [nan |-> TRUE, v |-> 0]

\* x.shape[1] of an array with at least one row.
Width(x) == Cardinality(DOMAIN x[1])

\* np.isclose(a, b, atol=1e-2) of an array element: nan is close to nothing.
IsCloseTo(a, b) == ~a.nan /\ IsClose(a.v, b)

\* -a and a * nan of array elements.
Neg(a) == IF a.nan THEN a ELSE Num(-a.v)

\* np.zeros_like(x) and np.zeros_like(x) * np.nan.
ZerosLike(x) == [r \in DOMAIN x |-> [j \in DOMAIN x[r] |-> Num(0)]]

NansLike(x) == [r \in DOMAIN x |-> [j \in DOMAIN x[r] |-> NaN]]

\* x[:, :n] for n >= 0.
Columns(x, n) ==
    [r \in DOMAIN x |-> [j \in {i \in DOMAIN x[r] : i < n} |-> x[r][j]]]

\* torch.cat([x, y], dim=1).
Cat(x, y) ==
    [r \in DOMAIN x |->
        [j \in 0..(Width(x) + Width(y) - 1) |->
            IF j < Width(x) THEN x[r][j] ELSE y[r][j - Width(x)]]]

\* correct_shape, lines 461-473: the zeros appended are those of the slice
\* x[:, :(shape1 - x.shape[1])], which has at most x.shape[1] columns.
correct_shape(x, shape1) ==
    IF Width(x) < shape1
    THEN Cat(x, ZerosLike(Columns(x, shape1 - Width(x))))
    ELSE IF Width(x) > shape1 THEN Columns(x, shape1)
    ELSE x

\* The asserts of lines 447 and 477.
AllNonNegative(ks) ==
    \A r \in DOMAIN ks : \A j \in DOMAIN ks[r] : ks[r][j].nan \/ ks[r][j].v >= 0

\* The test of lines 449 and 478.
AllZeroOrPi(phases) ==
    \A r \in DOMAIN phases : \A j \in DOMAIN phases[r] :
        \/ IsCloseTo(phases[r][j], 0) \/ IsCloseTo(phases[r][j], PI)
        \/ IsCloseTo(phases[r][j], TWO_PI) \/ phases[r][j].nan

\* np.where(isclose(phases, 0) + isclose(phases, 2 pi), ks, -ks), lines
\* 456-458 and 484-486.
Signed(ks, phases) ==
    [r \in DOMAIN ks |->
        [j \in DOMAIN ks[r] |->
            IF IsCloseTo(phases[r][j], 0) \/ IsCloseTo(phases[r][j], TWO_PI)
            THEN ks[r][j] ELSE Neg(ks[r][j])]]

\* Line 482: np.zeros_like(self.improper_ks).
ImproperFallback(ks) == ZerosLike(ks)

\* The graph data that write_to_dgl has not written.
NoData == [n2_k |-> None, n2_eq |-> None, n3_k |-> None, n3_eq |-> None,
           n4 |-> None, n4_improper |-> None]

\* write_to_dgl, lines 441-492: the graph data written and the exception.
write_to_dgl(this, nan_allowed, n_proper, n_improper) ==
    LET g2 == [NoData EXCEPT !.n2_k = Some(this.bond_k), !.n2_eq = Some(this.bond_eq),
                             !.n3_k = Some(this.angle_k),
                             !.n3_eq = Some(this.angle_eq)]
        proper_ks == IF AllZeroOrPi(this.proper_phases)
                     THEN Signed(this.proper_ks, this.proper_phases)
                     ELSE NansLike(this.proper_ks)
        g4 == [g2 EXCEPT !.n4 = Some(correct_shape(proper_ks, n_proper))]
        improper_ks == IF AllZeroOrPi(this.improper_phases.v)
                       THEN Signed(this.improper_ks.v, this.improper_phases.v)
                       ELSE ImproperFallback(this.improper_ks.v)
    IN  IF ~AllNonNegative(this.proper_ks)
        THEN [err |-> "AssertionError", g |-> g2]
        ELSE IF ~AllZeroOrPi(this.proper_phases) /\ ~nan_allowed
        THEN [err |-> "ValueError", g |-> g2]
        ELSE IF this.improper_ks.none THEN [err |-> "TypeError", g |-> g4]
        ELSE IF ~AllNonNegative(this.improper_ks.v)
        THEN [err |-> "AssertionError", g |-> g4]
        ELSE IF ~AllZeroOrPi(this.improper_phases.v) /\ ~nan_allowed
        THEN [err |-> "ValueError", g |-> g4]
        ELSE [err |-> "",
              g |-> [g4 EXCEPT !.n4_improper =
                                  Some(correct_shape(improper_ks, n_improper))]]

\* The cells of the arrays explored, as <<coefficient, phase>>: an empty
\* cell; phases 0, within tolerance of pi, 2 pi and pi/2; a missing value; a
\* negative coefficient.
CellValues ==
    {<<Num(0), Num(0)>>, <<Num(2), Num(0)>>, <<Num(2), Num(PI + 2)>>,
     <<Num(2), Num(TWO_PI)>>, <<Num(2), Num(314)>>, <<NaN, NaN>>,
     <<Num(-1), Num(0)>>}

\* The one-row pairs of arrays with up to MaxColumns columns.
WideArrays ==
    UNION {{[ks |-> <<[j \in 0..(c - 1) |-> row[j][1]]>>,
             phases |-> <<[j \in 0..(c - 1) |-> row[j][2]]>>] :
               row \in [0..(c - 1) -> CellValues]} : c \in 1..MaxColumns}

\* Two pairs of arrays that pass every test: one cell, and two rows.
PlainArrays ==
    {[ks |-> <<(0 :> Num(1))>>, phases |-> <<(0 :> Num(0))>>],
     [ks |-> <<(0 :> Num(1)), (0 :> Num(3))>>,
      phases |-> <<(0 :> Num(PI)), (0 :> Num(0))>>]}

\* Parameters objects: one torsion class drawn widely, the other plainly or,
\* for the impropers, None.
ParametersObjects ==
    {[bond_k |-> <<101>>, bond_eq |-> <<201>>, angle_k |-> <<101>>,
      angle_eq |-> <<201>>,
      proper_ks |-> pr.ks, proper_phases |-> pr.phases,
      improper_ks |-> Some(im.ks), improper_phases |-> Some(im.phases)] :
        pr \in WideArrays, im \in PlainArrays}
    \cup
    {[bond_k |-> <<101>>, bond_eq |-> <<201>>, angle_k |-> <<101>>,
      angle_eq |-> <<201>>,
      proper_ks |-> pr.ks, proper_phases |-> pr.phases,
      improper_ks |-> Some(im.ks), improper_phases |-> Some(im.phases)] :
        pr \in PlainArrays, im \in WideArrays}
    \cup
    {[bond_k |-> <<101>>, bond_eq |-> <<201>>, angle_k |-> <<101>>,
      angle_eq |-> <<201>>,
      proper_ks |-> pr.ks, proper_phases |-> pr.phases,
      improper_ks |-> None, improper_phases |-> None] : pr \in PlainArrays}

InitDgl ==
    /\ NoFromLists
    /\ NoBuilder
    /\ params \in {<<x>> : x \in ParametersObjects}
    /\ allow_nan \in BOOLEAN
    /\ n_periodicity_proper \in 1..MaxWidth
    /\ n_periodicity_improper \in 1..MaxWidth
    /\ g = NoData
    /\ dgl_err = "not called"

WriteToDgl ==
    /\ dgl_err = "not called"
    /\ LET r == write_to_dgl(params[1], allow_nan, n_periodicity_proper,
                             n_periodicity_improper)
       IN  g' = r.g /\ dgl_err' = r.err
    /\ UNCHANGED <<params, allow_nan, n_periodicity_proper, n_periodicity_improper,
                   inputs, torsions, pc, err, loc, p, d, q, dict_err, buildervars>>

NextDgl == WriteToDgl

SpecDgl == InitDgl /\ [][NextDgl]_vars

-----------------------------------------------------------------------------
(* Vocabulary of the properties *)

IdsOf(m, t) == [i \in DOMAIN t |-> m.atoms[t[i]]]

Reversed(t) == [i \in DOMAIN t |-> t[Len(t) + 1 - i]]

Swapped(t) == <<t[1], t[3], t[2], t[4]>>

\* Raw row `row` denotes the id tuple `tuple` of the molecule: the same atoms
\* in the same or in the reverse order.
Denotes(m, row, tuple) ==
    IdsOf(m, row) = tuple \/ Reversed(IdsOf(m, row)) = tuple

\* Every tuple of the molecule's list is denoted by some raw row.
ContainsAll(m, rows, tuples) ==
    \A i \in DOMAIN tuples : \E j \in DOMAIN rows : Denotes(m, rows[j], tuples[i])

\* No two raw rows denote the same tuple.
NoTwoDenoteTheSame(m, rows) ==
    \A i, j \in DOMAIN rows : Denotes(m, rows[i], IdsOf(m, rows[j])) => i = j

ReverseRow(rows, j) == [rows EXCEPT ![j] = Reversed(rows[j])]

\* The raw torsion entry the loop has just read, in a step of Iterate.
Read(e) == pc = "loop" /\ torsions' = Append(torsions, e)

\* The phase of a raw entry after the sign of its coefficient is absorbed.
ShiftedPhase(e) == IF e.k < 0 THEN (e.phase + PI) % TWO_PI ELSE e.phase

IsProperEntry(m, e) == ~is_improper(m, IdsOf(m, e.t)).is_improper

\* The row of mol.impropers holding tuple t, 0 if none.
RowOf(m, t) == IF \E r \in DOMAIN m.impropers : m.impropers[r] = t
               THEN CHOOSE r \in DOMAIN m.impropers : m.impropers[r] = t
               ELSE 0

NearZeroOrPi(phase) == IsClose(phase, 0) \/ IsClose(phase, PI)

-----------------------------------------------------------------------------
(* C1 *)

-----------------------------------------------------------------------------
(* C2 *)

\* C2: whenever from_lists has returned, every entry of proper_ks and of
\* improper_ks is non-negative.
C2_NonNegativeCoefficients ==
    pc = "returned" =>
        /\ \A r \in DOMAIN p[1].proper_ks : \A c \in DOMAIN p[1].proper_ks[r] :
              p[1].proper_ks[r][c] >= 0
        /\ \A r \in DOMAIN loc.improper_ks : \A c \in DOMAIN loc.improper_ks[r] :
              loc.improper_ks[r][c] >= 0

-----------------------------------------------------------------------------
(* C3 *)

\* C3: to_dict holds the three improper arrays exactly when impropers is
\* present, and from_dict of the dictionary succeeds and yields an object
\* with the thirteen fields of the original, also when impropers is None.
C3_RoundTrip ==
    /\ d # << >> =>
          (ImproperFieldNames \subseteq DOMAIN d[1] <=> ~p[1].impropers.none)
    /\ (q # << >> \/ dict_err # "") => (dict_err = "" /\ q = p)

-----------------------------------------------------------------------------
(* C4 *)

\* C4: from_lists fails, returning nothing, when a raw list is shorter than
\* the molecule's list, when a raw list holds the same row twice, and when a
\* bond or angle of the molecule is denoted by no raw row.
C4_MalformedInputFails ==
    (/\ pc # "call"
     /\ \/ Len(bonds) < Len(mol.bonds)
        \/ Len(angles) < Len(mol.angles)
        \/ \E i, j \in DOMAIN bonds : i # j /\ bonds[i] = bonds[j]
        \/ \E i, j \in DOMAIN angles : i # j /\ angles[i] = angles[j]
        \/ ~ContainsAll(mol, bonds, mol.bonds)
        \/ ~ContainsAll(mol, angles, mol.angles))
    => (pc = "raised" /\ err # "" /\ p = << >> /\ torsions = << >>)

\* The call failed on a raw bond list that is long enough and free of
\* duplicates but misses a bond of the molecule.
C4_Witness ==
    /\ pc = "raised"
    /\ err = "ValueError"
    /\ Len(bonds) >= Len(mol.bonds)
    /\ NoDuplicateRows(bonds)
    /\ ~ContainsAll(mol, bonds, mol.bonds)
    /\ ContainsAll(mol, angles, mol.angles)

-----------------------------------------------------------------------------
(* C5 *)

\* C5: an iteration on a raw torsion with coefficient -k and phase phi leaves
\* the arrays (and the outcome) exactly as an iteration on the same torsion
\* with coefficient +k and phase (phi + pi) mod 2 pi would.
C5_SignPhaseEquivalence ==
    [][\A e \in TorsionInputs(mol) :
          (Read(e) /\ e.k < 0) =>
              LET partner == [e EXCEPT !.k = -e.k,
                                       !.phase = (e.phase + PI) % TWO_PI]
                  r == TorsionIter(mol, allow_skip_improper, weak_scalars,
                                   loc, partner)
              IN  loc' = r.l /\ err' = r.err]_vars

\* from_lists returned after one raw torsion with a negative coefficient and
\* phase 0, stored with phase pi.
C5_Witness ==
    /\ pc = "returned"
    /\ Len(torsions) = 1
    /\ torsions[1].k < 0 /\ torsions[1].phase = 0
    /\ \E r \in DOMAIN loc.improper_ks :
          loc.improper_ks[r][0] = 2 /\ loc.improper_phases[r][0] = PI

-----------------------------------------------------------------------------
(* C6 *)

\* The sum of the normalized coefficients of raw torsion entries.
RECURSIVE SumOfK(_)
SumOfK(raw) ==
    IF raw = << >> THEN 0 ELSE Abs(Head(raw).k) + SumOfK(Tail(raw))

\* C6: when the raw torsions read so far are all proper torsions with nonzero
\* coefficient that denote the same row of mol.propers with the same
\* periodicity p in 1..N_PERIODICITY_PROPER and the same normalized phase,
\* from_lists has not failed, cell (row, p - 1) holds the sum of their
\* normalized coefficients and the common phase, and every other cell is 0.
C6_AdditiveAccumulation ==
    \A row \in DOMAIN mol.propers : \A n \in 1..N_PERIODICITY_PROPER :
        (/\ pc # "call"
         /\ torsions # << >>
         /\ \A i \in DOMAIN torsions :
               /\ torsions[i].k # 0
               /\ IsProperEntry(mol, torsions[i])
               /\ Denotes(mol, torsions[i].t, mol.propers[row])
               /\ torsions[i].periodicity = n
               /\ ShiftedPhase(torsions[i]) = ShiftedPhase(torsions[1]))
        =>
        /\ pc # "raised"
        /\ loc.proper_ks[row][n - 1] = SumOfK(torsions)
        /\ loc.proper_phases[row][n - 1] = ShiftedPhase(torsions[1])
        /\ \A r \in DOMAIN mol.propers : \A c \in 0..(N_PERIODICITY_PROPER - 1) :
              <<r, c>> # <<row, n - 1>> =>
                  loc.proper_ks[r][c] = 0 /\ loc.proper_phases[r][c] = 0
        /\ loc.improper_ks = Zeros(mol.impropers, N_PERIODICITY_IMPROPER)

-----------------------------------------------------------------------------
(* C7 *)

\* Two raw torsions read so far are proper, have nonzero coefficients, denote
\* the same proper with the same periodicity and have different normalized
\* phases.
PhaseConflict ==
    \E i, j \in DOMAIN torsions :
        /\ i < j
        /\ torsions[i].k # 0 /\ torsions[j].k # 0
        /\ IsProperEntry(mol, torsions[i]) /\ IsProperEntry(mol, torsions[j])
        /\ Denotes(mol, torsions[i].t, IdsOf(mol, torsions[j].t))
        /\ torsions[i].periodicity = torsions[j].periodicity
        /\ ShiftedPhase(torsions[i]) # ShiftedPhase(torsions[j])

\* C7: once two such raw torsions have been read, in either order and for
\* either value of allow_skip_improper, from_lists has raised and returns no
\* Parameters.
C7_PhaseConflictRaises ==
    PhaseConflict => (pc = "raised" /\ err # "" /\ p = << >>)

\* The conflict was raised on a torsion given in the reverse orientation of
\* the first, with allow_skip_improper set.
C7_Witness ==
    /\ PhaseConflict
    /\ err = "RuntimeError"
    /\ allow_skip_improper
    /\ Len(torsions) = 2
    /\ torsions[2].t = Reversed(torsions[1].t)
    /\ torsions[1].periodicity = 1

-----------------------------------------------------------------------------
(* C8 *)

\* C8: every raw torsion with nonzero coefficient that from_lists has read
\* without raising has a periodicity between 1 and N_PERIODICITY_PROPER (a
\* proper) or N_PERIODICITY_IMPROPER (an improper).
C8_PeriodicityInRange ==
    pc \in {"loop", "returned"} =>
        \A i \in DOMAIN torsions :
            torsions[i].k # 0 =>
                /\ 1 <= torsions[i].periodicity
                /\ torsions[i].periodicity <=
                      IF IsProperEntry(mol, torsions[i])
                      THEN N_PERIODICITY_PROPER ELSE N_PERIODICITY_IMPROPER

-----------------------------------------------------------------------------
(* C9 *)

\* C9: an iteration on a raw improper torsion that is a row (a,b,c,d) of
\* mol.impropers or its reversal (d,c,b,a) leaves the arrays and the outcome
\* exactly as an iteration on the other of the two would; when it does not
\* raise and the periodicity n is in 1..N_PERIODICITY_IMPROPER, cell
\* (row of (a,b,c,d), n - 1) holds the normalized coefficient and phase,
\* whatever the phase, and no other cell changes.
C9_ReversalSymmetry ==
    [][\A e \in TorsionInputs(mol) :
          LET ids == IdsOf(mol, e.t)
              row == IF RowOf(mol, ids) # 0 THEN RowOf(mol, ids)
                     ELSE RowOf(mol, Reversed(ids))
              other == TorsionIter(mol, allow_skip_improper, weak_scalars, loc,
                                   [e EXCEPT !.t = Reversed(e.t)])
              col == e.periodicity - 1
          IN  (Read(e) /\ e.k # 0 /\ row # 0) =>
                  /\ loc' = other.l /\ err' = other.err
                  /\ (err' = "" /\ e.periodicity \in 1..N_PERIODICITY_IMPROPER) =>
                        /\ loc'.improper_ks =
                              [loc.improper_ks EXCEPT ![row][col] = Abs(e.k)]
                        /\ loc'.improper_phases =
                              [loc.improper_phases EXCEPT ![row][col] = ShiftedPhase(e)]
                        /\ loc'.proper_ks = loc.proper_ks
                        /\ loc'.proper_phases = loc.proper_phases]_vars

\* from_lists returned after the reversal (3,2,1,0) of row (0,1,2,3) with a
\* phase of pi/2: it is stored in that row (row 2 of mol.impropers).
C9_Witness ==
    /\ pc = "returned"
    /\ torsions = <<Entry(<<3, 2, 1, 0>>, 1, 314, 1)>>
    /\ loc.improper_ks[2][0] = 1
    /\ loc.improper_phases[2][0] = 314

-----------------------------------------------------------------------------
(* C10 *)

\* No candidate permutation of the id tuple is accepted: neither the tuple
\* nor its reversal is in mol.impropers, and the swapped tuples are not
\* either or the phase is not near 0 or pi.
NoPermutationMatches(m, ids, phase) ==
    /\ RowOf(m, ids) = 0
    /\ RowOf(m, Reversed(ids)) = 0
    /\ \/ ~NearZeroOrPi(phase)
       \/ RowOf(m, Swapped(ids)) = 0 /\ RowOf(m, Reversed(Swapped(ids))) = 0

-----------------------------------------------------------------------------
(* C11 *)

\* Slots 0 and 3 are the end slots, slots 1 and 2 the inner slots.
SameSide(slot, other) == (slot \in {0, 3}) = (other \in {0, 3})

\* The column of an array with n columns that periodicity per selects.
ColumnOf(n, per) == IF per = 0 THEN n - 1 ELSE per - 1

-----------------------------------------------------------------------------
(* C12 *)

\* The row of mol.impropers a raw improper with id tuple ids resolves to, 0
\* if none: the row of the tuple, else of its reversal, else, for a phase
\* near 0 or pi, of its swap, else of the reversal of its swap.
TargetRow(m, ids, phase) ==
    IF RowOf(m, ids) # 0 THEN RowOf(m, ids)
    ELSE IF RowOf(m, Reversed(ids)) # 0 THEN RowOf(m, Reversed(ids))
    ELSE IF ~NearZeroOrPi(phase) THEN 0
    ELSE IF RowOf(m, Swapped(ids)) # 0 THEN RowOf(m, Swapped(ids))
    ELSE RowOf(m, Reversed(Swapped(ids)))

\* C12: an iteration on a raw improper torsion with nonzero coefficient that
\* resolves to a row and periodicity column of improper_ks that is already
\* populated raises an error, for either value of allow_skip_improper, and
\* leaves every array as it was: the coefficient is neither added nor
\* written, the phase is kept, and no Parameters is returned.
C12_ImproperDuplicateRaises ==
    [][\A e \in TorsionInputs(mol) :
          LET row == TargetRow(mol, IdsOf(mol, e.t), ShiftedPhase(e))
              col == ColumnOf(N_PERIODICITY_IMPROPER, e.periodicity)
          IN  (/\ Read(e) /\ e.k # 0 /\ row # 0
               /\ e.periodicity \in 0..N_PERIODICITY_IMPROPER
               /\ loc.improper_ks[row][col] # 0) =>
                  /\ loc' = loc
                  /\ err' # "" /\ pc' = "raised"
                  /\ p' = << >>]_vars

\* from_lists raised on the reversal of row (0,1,2,3) given with another
\* coefficient after the row itself: the cell keeps the first coefficient.
C12_Witness ==
    /\ pc = "raised"
    /\ err = "ValueError"
    /\ torsions = <<Entry(<<0, 1, 2, 3>>, 1, 0, 1), Entry(<<3, 2, 1, 0>>, -2, 0, 1)>>
    /\ loc.improper_ks[2][0] = 1
    /\ loc.improper_phases[2][0] = 0

-----------------------------------------------------------------------------
(* C13 *)

\* Two raw torsions read so far have nonzero coefficients and resolve to the
\* same row of mol.impropers with the same periodicity.
DuplicateImproper ==
    \E i, j \in DOMAIN torsions :
        /\ i < j
        /\ torsions[i].k # 0 /\ torsions[j].k # 0
        /\ torsions[i].periodicity = torsions[j].periodicity
        /\ torsions[i].periodicity \in 1..N_PERIODICITY_IMPROPER
        /\ TargetRow(mol, IdsOf(mol, torsions[i].t), ShiftedPhase(torsions[i])) # 0
        /\ TargetRow(mol, IdsOf(mol, torsions[i].t), ShiftedPhase(torsions[i]))
           = TargetRow(mol, IdsOf(mol, torsions[j].t), ShiftedPhase(torsions[j]))

\* C13 as stated: with allow_skip_improper a duplicate improper assignment is
\* skipped, from_lists does not raise and goes on to return a Parameters.
C13_DuplicateSkipped ==
    (allow_skip_improper /\ DuplicateImproper) => (pc # "raised" /\ err = "")

\* C13, amended: a duplicate improper assignment is fatal for the molecule
\* whether or not allow_skip_improper is set: from_lists has raised and
\* returns no Parameters.
C13_DuplicateFatal ==
    DuplicateImproper => (pc = "raised" /\ err # "" /\ p = << >>)

\* With allow_skip_improper, the same raw improper was given twice and
\* from_lists raised the ValueError of line 372.
C13_Witness ==
    /\ allow_skip_improper
    /\ DuplicateImproper
    /\ err = "ValueError"
    /\ Len(torsions) = 2
    /\ torsions[1] = torsions[2]

-----------------------------------------------------------------------------
(* C14 *)

\* C14: whatever the graph utilities answer, the mapping match_molecules
\* returned last has key 0, with the identity permutation [0, 1, ..., n-1] as
\* its value.
C14_FirstIsIdentity ==
    permutations # << >> =>
        (0 \in DOMAIN permutations /\ permutations[0] = Identity(AtomCount))

-----------------------------------------------------------------------------
(* C15 *)

\* The file index that an energy of a merged conformation comes from.
SourceOf(energy) == (energy \div 100) - 1

\* The energies an entry holds.
EnergiesOf(entry) ==
    IF entry.energy.squeezed THEN {entry.energy.a} ELSE Range(entry.energy.a)

\* File idx holds a conformation with positions, energy and forces.
Usable(files, idx) == \E c \in DOMAIN files[idx + 1] : files[idx + 1][c] = "complete"

\* C15: after an iteration of from_QM on a subdirectory with at least one
\* file, no error is raised; the mapping match_molecules returned has key 0
\* and, of the other files, exactly those for which an isomorphism to the
\* first was reported; the merged conformations come from exactly the files
\* with a key that hold a conformation with energy and forces (none from a
\* file without a key); and the id is left out of entries exactly when no
\* such conformation remains.
C15_UnmatchedSourcesDropped ==
    (found.kind = "from_QM" /\ found.files # << >>) =>
        LET files == found.files
            others == 1..(Len(files) - 1)
            kept == {idx \in DOMAIN permutations : Usable(files, idx)}
        IN  /\ b_err = "" /\ op = "from_QM"
            /\ DOMAIN permutations = {0} \cup (found.answer.iso \cap others)
            /\ found.mol_id \in DOMAIN entries <=> kept # {}
            /\ found.mol_id \in DOMAIN entries =>
                  {SourceOf(e) : e \in EnergiesOf(entries[found.mol_id])} = kept

\* Two usable files, the second not matched to the first: the entry holds
\* the conformation of the first file only, and the loop goes on.
C15_Witness ==
    /\ found.kind = "from_QM"
    /\ found.files = << <<"complete">>, <<"complete">> >>
    /\ 1 \notin found.answer.iso
    /\ DOMAIN permutations = {0}
    /\ found.mol_id \in DOMAIN entries
    /\ {SourceOf(e) : e \in EnergiesOf(entries[found.mol_id])} = {0}
    /\ op = "from_QM"

-----------------------------------------------------------------------------
(* C16 *)

\* The step is a call of write_to_dir.
IsWriteToDir == calls' = calls + 1 /\ call'.name = "write_to_dir"

\* C16: in every step of a sequence of calls of from_QM,
\* add_nonbonded_from_gmx_top, remove_bonded_parameters and write_to_dir: an
\* id enters complete_entries only in an iteration of
\* add_nonbonded_from_gmx_top on it in which a topology file was found, the
\* entry's molecule was matched to the topology's, xyz and gradient were
\* permuted with the permutation found and add_ff_data and _validate
\* completed; every id in complete_entries is an entry whose molecule is the
\* topology's and that has its force-field data; and write_to_dir saves a
\* file only for ids that are in complete_entries and in entries.
C16_Completeness ==
    [][/\ \A mol_id \in complete_entries' \ complete_entries :
             /\ op = "add_nonbonded_from_gmx_top"
             /\ found'.kind = "add_nonbonded_from_gmx_top"
             /\ found'.mol_id = mol_id /\ mol_id = Head(batch)
             /\ found'.top = "found"
             /\ 1 \in found'.answer.iso
             /\ found'.outcome = "ok"
             /\ entries'[mol_id].xyz =
                   PermuteAxis1(entries[mol_id].xyz, found'.answer.perm[1]).x
             /\ entries'[mol_id].gradient =
                   PermuteAxis1(entries[mol_id].gradient, found'.answer.perm[1]).x
       /\ \A mol_id \in complete_entries' :
             /\ mol_id \in DOMAIN entries'
             /\ entries'[mol_id].molecule = "top"
             /\ entries'[mol_id].ff_data
       /\ IsWriteToDir =>
             /\ saved' \subseteq complete_entries \cap DOMAIN entries
             /\ \A name \in DOMAIN out_dir' :
                   (name \notin DOMAIN out_dir \/ out_dir'[name] # out_dir[name])
                   => \E mol_id \in complete_entries \cap DOMAIN entries :
                         name = NpzName(mol_id)]_vars

\* The first molecule of the listing was augmented and is complete, the
\* second is an entry without a topology file, and write_to_dir has saved
\* the file of the first only.
C16_Witness ==
    /\ call.name = "write_to_dir"
    /\ DOMAIN entries = {1, 2}
    /\ complete_entries = {1}
    /\ saved = {1}
    /\ NpzName(1) \in DOMAIN out_dir /\ out_dir[NpzName(1)] = "MolData.save"
    /\ NpzName(2) \notin DOMAIN out_dir

-----------------------------------------------------------------------------
(* C17 *)

\* C17: a call of write_to_dir on a directory that holds an npz file, made
\* with overwrite False, saves no entry and leaves the directory as it was;
\* made on a directory without an npz file, or with overwrite True, it
\* saves the file <mol_id>.npz of every complete entry and leaves the other
\* files as they were.
C17_GuardedOutput ==
    [][IsWriteToDir =>
          IF (\E name \in DOMAIN out_dir : name[2] = "npz") /\ ~call'.overwrite
          THEN out_dir' = out_dir /\ saved' = {}
          ELSE /\ \A mol_id \in complete_entries \cap DOMAIN entries :
                     /\ mol_id \in saved'
                     /\ NpzName(mol_id) \in DOMAIN out_dir'
                     /\ out_dir'[NpzName(mol_id)] = "MolData.save"
               /\ \A name \in DOMAIN out_dir :
                     name \notin {NpzName(mol_id) : mol_id \in saved'}
                     => (name \in DOMAIN out_dir' /\ out_dir'[name] = out_dir[name])]_vars

\* With overwrite False, write_to_dir was called on a directory holding the
\* npz file of an earlier run while an entry was complete: nothing is saved
\* and the old file is kept.
C17_Witness ==
    /\ call.name = "write_to_dir"
    /\ ~call.overwrite
    /\ complete_entries = {1}
    /\ saved = {}
    /\ out_dir = (NpzName(1) :> "old")

-----------------------------------------------------------------------------
(* C18 *)

\* C18: when a run of to_grappa.main has ended, every item of the listing
\* has been processed, whatever errors were raised and counted on the way,
\* and the summary has been printed.
C18_ErrorIsolation ==
    (call.name = "main" /\ op = "idle") => (batch = << >> /\ summary)

-----------------------------------------------------------------------------
(* C19 *)

\* Some phase of the array is a number that is not within tolerance of 0, pi
\* or 2 pi.
Unrepresentable(phases) ==
    \E r \in DOMAIN phases : \E j \in DOMAIN phases[r] :
        /\ ~phases[r][j].nan
        /\ ~IsClose(phases[r][j].v, 0) /\ ~IsClose(phases[r][j].v, PI)
        /\ ~IsClose(phases[r][j].v, TWO_PI)

\* What is written for a torsion class, in the columns that the stored
\* arrays have: missing values if a phase is unrepresentable, else +k where
\* the phase is near 0 or 2 pi and -k where it is near pi.
WrittenAsClaimed(written, ks, phases) ==
    \A r \in DOMAIN ks : \A j \in DOMAIN ks[r] \cap DOMAIN written[r] :
        IF Unrepresentable(phases) THEN written[r][j].nan
        ELSE /\ (~phases[r][j].nan /\ (IsClose(phases[r][j].v, 0)
                                       \/ IsClose(phases[r][j].v, TWO_PI)))
                => written[r][j] = ks[r][j]
             /\ (~phases[r][j].nan /\ IsClose(phases[r][j].v, PI))
                => written[r][j] = Neg(ks[r][j])

\* C19: after write_to_dgl: if a stored proper or improper phase is
\* unrepresentable and allow_nan is False, an error was raised; the signed
\* coefficients written for the propers, and those written for the
\* impropers, are missing values if a phase of the class is unrepresentable
\* (allow_nan being True), else +k where the phase is near 0 or 2 pi and -k
\* where it is near pi.
C19_UnrepresentablePhases ==
    dgl_err # "not called" =>
        LET this == params[1]
        IN  /\ (/\ ~allow_nan
                /\ \/ Unrepresentable(this.proper_phases)
                   \/ (~this.improper_phases.none
                       /\ Unrepresentable(this.improper_phases.v)))
               => dgl_err # ""
            /\ ~g.n4.none =>
                  WrittenAsClaimed(g.n4.v, this.proper_ks, this.proper_phases)
            /\ ~g.n4_improper.none =>
                  WrittenAsClaimed(g.n4_improper.v, this.improper_ks.v,
                                   this.improper_phases.v)

-----------------------------------------------------------------------------
(* C20 *)

\* The array has shape1 columns: the first columns of x, as many as both
\* have, unchanged, and zeros after them.
ShapedAsClaimed(y, x, shape1) ==
    \A r \in DOMAIN x :
        /\ DOMAIN y[r] = 0..(shape1 - 1)
        /\ \A j \in DOMAIN y[r] :
              y[r][j] = IF j \in DOMAIN x[r] THEN x[r][j] ELSE Num(0)

\* Every phase of the array is 0: the signed coefficients are the stored
\* ones.
AllZero(phases) ==
    \A r \in DOMAIN phases : \A j \in DOMAIN phases[r] : phases[r][j] = Num(0)

\* C20: the arrays that write_to_dgl has written with correct_shape have
\* n_periodicity_proper and n_periodicity_improper columns; where the stored
\* coefficients are passed as they are (every phase is 0), the columns that
\* the input has are unchanged and the others are zero, for every number of
\* input columns and every target width.
C20_CorrectShape ==
    /\ ~g.n4.none =>
          /\ Width(g.n4.v) = n_periodicity_proper
          /\ AllZero(params[1].proper_phases) =>
                ShapedAsClaimed(g.n4.v, params[1].proper_ks, n_periodicity_proper)
    /\ ~g.n4_improper.none =>
          /\ Width(g.n4_improper.v) = n_periodicity_improper
          /\ AllZero(params[1].improper_phases.v) =>
                ShapedAsClaimed(g.n4_improper.v, params[1].improper_ks.v,
                                n_periodicity_improper)

-----------------------------------------------------------------------------
(* C21 *)

\* No two rows of the canonically ordered raw list are the same tuple.
Distinct(canonical) == \A i, j \in DOMAIN canonical : canonical[i] = canonical[j] => i = j

\* C21: whenever from_lists has returned, no two raw bond entries denote the
\* same bond and no two raw angle entries denote the same angle after the
\* canonical ordering: a raw list with both orientations of a bond or of an
\* angle is rejected.
C21_NoCanonicalDuplicates ==
    pc = "returned" =>
        /\ Distinct(CanonicalBonds(mol, bonds))
        /\ Distinct(CanonicalAngles(mol, angles))

-----------------------------------------------------------------------------
(* C22 *)

\* The step is an iteration of add_nonbonded_from_gmx_top on an entry.
IsAddNonbondedStep ==
    /\ op = "add_nonbonded_from_gmx_top"
    /\ found'.kind = "add_nonbonded_from_gmx_top"
    /\ found'.mol_id \in DOMAIN entries

\* The iteration reached line 150: the topology was matched and neither the
\* permutation nor add_ff_data nor _validate raised.
Augmented ==
    found'.top = "found" /\ found'.outcome = "ok" /\ b_err' = ""

\* C22: an iteration of add_nonbonded_from_gmx_top that fails or skips its
\* molecule (no topology file, no match, add_ff_data or _validate raising)
\* leaves the entry's molecule, xyz and gradient as they were, and after it
\* every entry that is not in complete_entries holds its QM-derived molecule.
C22_UnchangedOnFailure ==
    [][(IsAddNonbondedStep /\ ~Augmented) =>
          /\ entries'[found'.mol_id].molecule = entries[found'.mol_id].molecule
          /\ entries'[found'.mol_id].xyz = entries[found'.mol_id].xyz
          /\ entries'[found'.mol_id].gradient = entries[found'.mol_id].gradient
          /\ \A mol_id \in DOMAIN entries' \ complete_entries' :
                entries'[mol_id].molecule = "qm"]_vars

-----------------------------------------------------------------------------
(* C23 *)

\* mol.impropers holds, with every row, its cyclic permutations of the three
\* substituents, and every row has the central atom at IMPROPER_CENTRAL_IDX.
CyclicImpropers(m) ==
    \A r \in DOMAIN m.impropers :
        LET t == m.impropers[r]
        IN  /\ IMPROPER_CENTRAL_IDX + 1 \in CentralPositions(m, t)
            /\ <<t[2], t[4], t[3], t[1]>> \in Range(m.impropers)

\* The step is an iteration of the torsion loop; the raw entry it is on and
\* the atom ids of its tuple.
Iterated == pc = "loop" /\ Len(torsions') = Len(torsions) + 1

Last(list) == list[Len(list)]

TorsionOf(e) == IdsOf(mol, e.t)

\* The raw entry is an improper torsion with the central atom at slot 1 or 2,
\* a coefficient, a periodicity within the limit and a normalized phase
\* within tolerance of 0 or pi.
Resolvable(e) ==
    /\ e.k # 0
    /\ CentralPositions(mol, TorsionOf(e)) \cap {2, 3} # {}
    /\ e.periodicity \in 1..N_PERIODICITY_IMPROPER
    /\ \/ IsClose(NormalizedPhase(e.k, e.phase), 0)
       \/ IsClose(NormalizedPhase(e.k, e.phase), PI)

\* The rows of mol.impropers that are one of the four tried permutations of
\* the tuple.
RowsOf(t) ==
    {r \in DOMAIN mol.impropers :
        mol.impropers[r] \in {t, <<t[4], t[3], t[2], t[1]>>,
                              <<t[1], t[3], t[2], t[4]>>,
                              <<t[4], t[2], t[3], t[1]>>}}

\* The cells in which two arrays differ.
CellsChanged(a, b) ==
    {<<r, c>> \in (DOMAIN a) \X (0..(N_PERIODICITY_IMPROPER - 1)) : a[r][c] # b[r][c]}

\* The iteration on e was matched and wrote the cell (row, periodicity - 1)
\* of improper_ks and improper_phases and no other.
WroteOneCell(e) ==
    /\ err' = ""
    /\ \E r \in RowsOf(TorsionOf(e)) :
          /\ mol.impropers[r][IMPROPER_CENTRAL_IDX + 1]
                \in {TorsionOf(e)[i] : i \in CentralPositions(mol, TorsionOf(e))}
          /\ CellsChanged(loc.improper_ks, loc'.improper_ks)
                = {<<r, e.periodicity - 1>>}
          /\ loc'.improper_ks[r][e.periodicity - 1] \in {NormalizedK(e.k), -NormalizedK(e.k)}
          /\ CellsChanged(loc.improper_phases, loc'.improper_phases)
                \subseteq {<<r, e.periodicity - 1>>}
          /\ loc'.improper_phases[r][e.periodicity - 1] = NormalizedPhase(e.k, e.phase)

\* The claim as it is stated: every such raw improper is matched and writes
\* exactly one cell.
C23_AlwaysWritten ==
    [][(Iterated /\ CyclicImpropers(mol) /\ Resolvable(Last(torsions')))
          => WroteOneCell(Last(torsions'))]_vars

\* The cell of the one row that matches is populated before the iteration.
CellPopulated(e) ==
    \E r \in RowsOf(TorsionOf(e)) : loc.improper_ks[r][e.periodicity - 1] # 0

\* C23: if mol.impropers holds the three cyclic permutations of the
\* substituents of each central atom, with the central atom at
\* IMPROPER_CENTRAL_IDX, then the iteration on a raw improper with the central
\* atom at slot 1 or 2, in any ordering of the substituents, a periodicity
\* within the limit and a normalized phase within tolerance of 0 or pi is
\* never unmatched: exactly one row of mol.impropers is one of the four
\* permutations tried; if its cell (row, periodicity - 1) is empty the
\* iteration writes that cell of improper_ks and improper_phases and no
\* other, and if the cell is populated it raises the ValueError of a torsion
\* that appears twice and writes nothing.
C23_ImproperCompleteness ==
    [][(Iterated /\ CyclicImpropers(mol) /\ Resolvable(Last(torsions')))
          => /\ Cardinality(RowsOf(TorsionOf(Last(torsions')))) = 1
             /\ IF CellPopulated(Last(torsions'))
                THEN err' = "ValueError" /\ loc' = loc
                ELSE WroteOneCell(Last(torsions'))]_vars

\* A raw improper with the central atom at slot 1, in an ordering that only
\* the reversal resolves, has been written, after one with the central atom
\* at slot 2 in another ordering.
C23_Witness ==
    /\ pc = "loop"
    /\ Len(torsions) = 2
    /\ torsions[1].t = <<1, 3, 2, 0>>
    /\ torsions[2].t = <<3, 2, 0, 1>>
    /\ \A i \in 1..2 : \E r \in RowsOf(TorsionOf(torsions[i])) : loc.improper_ks[r][0] # 0

====
